---- MODULE Spec2Model ----
(***************************************************************************)
(* Tortoise beacon engine of go-spacemesh (package tortoisebeacon):        *)
(* the layer listener, the per-epoch layer handler and round driver, the   *)
(* proposal pump, the transient senders of a round, the beacon store and   *)
(* the weak-coin collaborator, as one state machine.                       *)
(*                                                                         *)
(* Goroutines are processes with a program counter.  A section of code     *)
(* that runs under tb.mu is one step; a blocking call to a collaborator    *)
(* (Broadcast, the weak coin, the beacon DB) ends a step.  Timers are      *)
(* untimed: a timer that was set may fire at any later moment, and a       *)
(* select with several ready cases takes any of them.                      *)
(***************************************************************************)
EXTENDS Integers, Sequences, FiniteSets, TLC

\* ------------------------------------------------------------------ bounds
MaxEpoch == 2        \* the layer clock ticks first layers of epochs 0..MaxEpoch
MaxSynced == 1       \* epochs in which the syncer reports the node synced
MaxStarts == 1       \* Start calls that win the CAS in one run
MaxChan == 1         \* messages a proposal channel holds in the model
MaxRestarts == 1     \* Start calls that win the CAS after a Close, where the owner restarts
MaxWarnings == 1     \* Start calls that lose the CAS, where the owner starts twice
MaxPubKeys == 2      \* public keys that send notify messages
MaxValues == 1       \* values a notified set is made of
MaxEligibility == 2  \* largest eligibility count of a notify message
MaxK == 1            \* largest round counter K of a certificate

\* ------------------------------------------------- configuration, constants
RoundsNumber == 2    \* tb.config.RoundsNumber
LayersPerEpoch == 2  \* layers of an epoch (types.LayerID.GetEpoch)
EpochWeight == 1     \* atxDB.GetEpochWeight: one peer ATX of one unit
Theta == 1           \* tb.config.Theta, as a whole number here
GenesisEpochs == 1   \* types.EpochID.IsGenesis: epoch 0
Kappa == 1           \* tb.config.Kappa
QNum == 1            \* tb.config.Q = QNum / QDen
QDen == 2
signatureLength == 2 \* bits of a VRF signature (64 * 8 in atxThreshold)
firstRound == 0
lastRound == RoundsNumber - 1 + firstRound

Epochs == 0..MaxEpoch
Rounds == firstRound..lastRound
Peers == {"p1"}
IsGenesis(e) == e < GenesisEpochs
Signatures == 0..(2^signatureLength - 1)

\* A proposal is the VRF signature over ("TBP", epoch): one per node and epoch.
\* <<e, 0>> is the node's own proposal of epoch e, <<e, 1>> the peer's.
OwnProposal(e) == <<e, 0>>
PeerProposals(e) == {<<e, 1>>}

\* Beacon values and GetBeacon answers are pairs <<kind, sorted proposals>>.
genesisBeacon == <<"sha256(genesis)", << >> >>
NoBeacon == <<"none", << >> >>
NoChan == [exists |-> FALSE, buf |-> << >>]
NewChan == [exists |-> TRUE, buf |-> << >>]
ZeroTime == 0
EmptyVotes == [set |-> FALSE, valid |-> {}, invalid |-> {}]

PropLess(p, q) == p[1] < q[1] \/ (p[1] = q[1] /\ p[2] < q[2])

RECURSIVE SortProposals(_)
SortProposals(S) ==
    IF S = {} THEN << >>
    ELSE LET m == CHOOSE p \in S : \A q \in S \ {p} : PropLess(p, q)
         IN  <<m>> \o SortProposals(S \ {m})

\* allHashes.hash(): sha256 over the sorted proposals, an injective digest here.
Hash(sorted) == <<"sha256", sorted>>

VARIABLES
    closed,                     \* tb.closed: 1 = started, 0 = not running
    starts,                     \* Start calls that won the CAS
    listeners,                  \* listenLayers goroutines: [live, dead]
    subscribed,                 \* subscriptions to the layer clock that are not undone
    warnings,                   \* "attempt to start tortoise beacon more than once"
    panicked,                   \* a logger.Panic brought the process down
    fatal,                      \* the message of that Panic and its epoch
    synced,                     \* epochs in which tb.sync.IsSynced() answers true
    overlap,                    \* the layer clock outruns the protocol of an epoch
    epochWeight,                \* atxDB.GetEpochWeight of the epochs of the run
    signature,                  \* vrfSigner.Sign of the node's own proposal, as an integer
    broadcastErr,               \* net.Broadcast returns an error during the run
    sync,                       \* tb.sync, the sync state provider
    epochInProgress,
    beacons,                    \* tb.beacons
    db,                         \* the persistent mirror tb.tortoiseBeaconDB
    dbAttached,                 \* tb.tortoiseBeaconDB != nil
    incomingProposals,
    firstRoundIncomingVotes,
    votesMargin,
    hasVoted,
    proposalPhaseFinishedTime,
    now,                        \* wall clock, advanced when it is read as a deadline
    proposalChans,              \* tb.proposalChans: epoch -> buffered channel
    pc,                         \* handleLayer/handleEpoch goroutine of an epoch
    ctxDone,                    \* the context of that goroutine is cancelled
    timerFired,                 \* the driver's current deadline has passed
    round,
    coinFlip,
    ownLastRoundVotes,          \* local of runConsensusPhase
    lastRoundOwnVotes,          \* what runConsensusPhase returned to handleEpoch
    sender,                     \* proposalPhaseImpl goroutine of an epoch
    pump,                       \* readProposalMessagesLoop goroutine of an epoch
    voters,                     \* rounds whose own-vote goroutine still runs
    coinRunners,                \* rounds whose startWeakCoinRound goroutine still runs
    closing,                    \* Close calls waiting in tb.eg.Wait()
    startCall,                  \* position of a Start call, tb.cancel, tb.layerTicker
    wc,                         \* log of the calls made to the weak coin, per epoch
    hist,                       \* observations of a run, per epoch
    nt,                         \* a notifyTracker of package hare
    ntHist                      \* the last OnNotify call and the first message of each key
                                \* (ret: what the call returned, pub: the key of its message)

notifyVars == <<nt, ntHist>>

tbVars == <<closed, starts, listeners, subscribed, warnings, panicked, fatal, synced,
          overlap, epochWeight, signature, broadcastErr, sync,
          epochInProgress, beacons, db,
          dbAttached, incomingProposals, firstRoundIncomingVotes,
          votesMargin, hasVoted, proposalPhaseFinishedTime, now, proposalChans, pc,
          ctxDone, timerFired, round, coinFlip, ownLastRoundVotes,
          lastRoundOwnVotes, sender, pump, voters, coinRunners, closing,
          startCall, wc, hist>>

vars == <<tbVars, notifyVars>>

Layers == 0..((MaxEpoch + 1) * LayersPerEpoch - 1)
GetEpoch(layer) == layer \div LayersPerEpoch
FirstInEpoch(layer) == layer % LayersPerEpoch = 0
Targets == 0..(MaxEpoch + 1)

DriverPhases == {"proposal", "round", "tally"}

\* ------------------------------------------------------------ pure helpers

ErrZeroEpochWeight == "zero epoch weight"

\* A threshold that is computed for every weight, zero included, and that
\* every signature is below.
atxThresholdOfAnyWeight(weight) ==
    [threshold |-> 2^signatureLength, err |-> ""]

\* atxThresholdFraction and atxThreshold: floor(2^signatureLength * f(W)) with
\* f(W) = 1 - 2^(-Kappa / ((1 - Q) * W)), or the error for W = 0.  The
\* configuration makes the exponent a whole number n, so that
\* the threshold is 2^signatureLength - 2^(signatureLength - n) exactly.
atxThreshold(weight) ==
    IF weight = 0
    THEN [threshold |-> 0, err |-> ErrZeroEpochWeight]
    ELSE LET n == (Kappa * QDen) \div ((QDen - QNum) * weight)
             shift == IF n > signatureLength THEN 0 ELSE signatureLength - n
         IN  [threshold |-> 2^signatureLength - 2^shift, err |-> ""]

\* An eligibility test that lets a signature equal to the threshold pass.
proposalPassesOrEqualsThreshold(proposal, weight) ==
    LET t == atxThreshold(weight)
    IN  [passes |-> t.err = "" /\ proposal <= t.threshold, err |-> t.err]

\* proposalPassesEligibilityThreshold: proposalInt.Cmp(threshold) == -1, or
\* the error of atxThreshold.
proposalPassesEligibilityThreshold(proposal, weight) ==
    LET t == atxThreshold(weight)
    IN  [passes |-> t.err = "" /\ proposal < t.threshold, err |-> t.err]

\* votingThreshold: floor(theta * epochWeight).
votingThreshold(weight) == Theta * weight

\* setBeacon: tb.beacons[epoch] = beacon, under tb.mu.
setBeacon(b, epoch, beacon) == [b EXCEPT ![epoch] = beacon]

\* initGenesisBeacons with a loop that runs one epoch too far.
initGenesisBeaconsOneMore(b) ==
    [e \in Epochs |-> IF IsGenesis(e) \/ IsGenesis(e - 1) THEN genesisBeacon ELSE b[e]]

\* initGenesisBeacons: the in-memory entries of the genesis epochs.
initGenesisBeacons(b) ==
    [e \in Epochs |-> IF IsGenesis(e) THEN genesisBeacon ELSE b[e]]

\* closeProposalChannel: a non-blocking receive; only when nothing can be
\* received is the channel closed and removed from the map.
closeProposalChannel(chans, epoch) ==
    IF ~chans[epoch].exists THEN chans
    ELSE IF Len(chans[epoch].buf) > 0
         THEN [chans EXCEPT ![epoch].buf = Tail(@)]
         ELSE [chans EXCEPT ![epoch] = NoChan]

\* The channel of epoch was closed by closeProposalChannel(chans, epoch).
ClosesChannel(chans, epoch) ==
    chans[epoch].exists /\ Len(chans[epoch].buf) = 0

getOrCreateProposalChannel(chans, epoch) ==
    IF ~chans[epoch].exists THEN [chans EXCEPT ![epoch] = NewChan] ELSE chans

\* markProposalPhaseFinished storing the zero time.
markZeroTime(finishedAt) == ZeroTime

\* markProposalPhaseFinished: what is stored in tb.proposalPhaseFinishedTime,
\* under tb.mu, when time.Now() is finishedAt.
markProposalPhaseFinished(finishedAt) == finishedAt

\* receivedBeforeProposalPhaseFinished
receivedBeforeProposalPhaseFinished(finishedAt, receivedAt) ==
    LET hasFinished == finishedAt # ZeroTime
    IN  ~hasFinished \/ receivedAt < finishedAt

\* calcVotes: the own opinion of a round from the margins and the coin.
calcVotes(margin, coin) ==
    LET thr == votingThreshold(epochWeight)
        known == DOMAIN margin
        valid == {p \in known : margin[p] >= thr
                                \/ (margin[p] > -thr /\ coin)}
    IN  [set |-> TRUE, valid |-> valid, invalid |-> known \ valid]

\* An error group whose context is cancelled by the first error a goroutine
\* returns.
CancelsOnSendError(done) == TRUE

\* tb.eg is a plain errgroup.Group: the error that a sender returns when
\* sendToGossip failed is kept for Wait and cancels nothing.
AfterSendError(done) == done

\* A round that is run without the coin of the round before it.
NoCoinFlip(coin) == FALSE

\* previousCoinFlip := coinFlip, at the head of an iteration of the loop of
\* runConsensusPhase.
PreviousCoinFlip(coin) == coin

\* A select that does not block: the timer case is taken whether or not the
\* timer has fired.
TimerCaseAlways(fired) == TRUE

\* The select of runConsensusPhase, case <-timer.C: ready once the round
\* timer has fired.
TimerCaseReady(fired) == fired

\* The end of a round with the coin read before the round is finished.
GetBeforeFinishRound(r) == << <<"Get", r>>, <<"FinishRound", r>> >>

\* The calls the driver makes to the weak coin at the end of round r:
\* tb.weakCoin.FinishRound(), then tb.weakCoin.Get(epoch, round).
RoundCalls(r) == << <<"FinishRound", r>>, <<"Get", r>> >>

\* The loop of runConsensusPhase with round < tb.lastRound() as its condition.
LoopStopsEarly(r) == r + 1 < lastRound

\* The loop of runConsensusPhase goes on after round r.
LoopContinues(r) == r + 1 <= lastRound

\* GetBeacon(epochID) given the answer of the mirror for epochID - 1:
\* a value, DBNotFound or DBFail.
ErrZeroEpoch == <<"ErrZeroEpoch", << >> >>
ErrBeaconNotCalculated == <<"ErrBeaconNotCalculated", << >> >>
ErrDB == <<"get beacon from DB", << >> >>
DBNotFound == <<"database.ErrNotFound", << >> >>
DBFail == <<"db failure", << >> >>
IsErr(r) == r \in {ErrZeroEpoch, ErrBeaconNotCalculated, ErrDB}

\* A GetBeacon that reads the mirror before it looks at the epoch number.
GetBeaconMirrorFirst(epochID, attached, dbAnswer, mem) ==
    IF attached /\ dbAnswer \notin {DBNotFound, DBFail} THEN dbAnswer
    ELSE IF attached /\ dbAnswer = DBFail THEN ErrDB
    ELSE IF epochID = 0 THEN ErrZeroEpoch
    ELSE IF IsGenesis(epochID - 1) THEN genesisBeacon
    ELSE IF mem[epochID - 1] = NoBeacon THEN ErrBeaconNotCalculated
    ELSE mem[epochID - 1]

GetBeacon(epochID, attached, dbAnswer, mem) ==
    IF epochID = 0 THEN ErrZeroEpoch
    ELSE IF attached /\ dbAnswer \notin {DBNotFound, DBFail} THEN dbAnswer
    ELSE IF attached /\ dbAnswer = DBFail THEN ErrDB
    ELSE IF IsGenesis(epochID - 1) THEN genesisBeacon
    ELSE IF mem[epochID - 1] = NoBeacon THEN ErrBeaconNotCalculated
    ELSE mem[epochID - 1]

DBAnswers(e) == {IF db[e] = NoBeacon THEN DBNotFound ELSE db[e], DBFail}

\* What a call of GetBeacon(target) can return in the current state, and the
\* values among that.
GetBeaconResults(target) ==
    {GetBeacon(target, dbAttached, a, beacons) : a \in DBAnswers(target - 1)}
GetBeaconValues(target) == {r \in GetBeaconResults(target) : ~IsErr(r)}

\* ------------------------------------------------ hare: notify tracker

PubKeys == 1..MaxPubKeys
ValueSets == SUBSET (1..MaxValues)
EligibilityCounts == 0..MaxEligibility

\* A notify message that passed validation: its sender, the values of its
\* set, its eligibility count and the K of the first message of its
\* certificate.
Msgs == [pub : PubKeys, values : ValueSets,
         eligibilityCount : EligibilityCounts, k : 0..MaxK]
NoMsg == [pub |-> 0, values |-> {}, eligibilityCount |-> 0, k |-> 0]

\* Set.ID: a 32 bit identifier of the set, here one bit per value.
RECURSIVE SetID(_)
SetID(s) ==
    IF s = {} THEN 0
    ELSE LET v == CHOOSE x \in s : TRUE IN 2^(v - 1) + SetID(s \ {v})

\* The exclusive or of two bytes.
RECURSIVE Xor8(_, _, _)
Xor8(a, b, bits) ==
    IF bits = 0 THEN 0
    ELSE ((a + b) % 2) + (2 * Xor8(a \div 2, b \div 2, bits - 1))

\* binary.LittleEndian.PutUint32
PutUint32(n) ==
    <<n % 256, (n \div 256) % 256, (n \div 65536) % 256, n \div 16777216>>

\* hash/fnv New32 (FNV-1): the hash value is a pair <<high 16 bits, low 16
\* bits>>; a byte is written by a multiplication with the prime 16777619
\* (256 * 65536 + 403) modulo 2^32 and an exclusive or into the low byte.
FnvOffset32 == <<33052, 40389>>
FnvWrite(h, byte) ==
    LET low == h[2] * 403
        lo == low % 65536
        hi == ((low \div 65536) + (h[1] * 403) + (h[2] * 256)) % 65536
    IN  <<hi, (lo - (lo % 256)) + Xor8(lo % 256, byte, 8)>>

RECURSIVE FnvWriteAll(_, _)
FnvWriteAll(h, bytes) ==
    IF bytes = << >> THEN h
    ELSE FnvWriteAll(FnvWrite(h, Head(bytes)), Tail(bytes))

\* calcID: the hash of K and of the identifier of the set.
calcID(k, set) ==
    FnvWriteAll(FnvWriteAll(FnvOffset32, PutUint32(k)), PutUint32(SetID(set)))

\* RefCountTracker.CountStatus and RefCountTracker.Track
CountStatus(table, id) == IF id \in DOMAIN table THEN table[id] ELSE 0
Track(table, id, count) ==
    [x \in DOMAIN table \cup {id} |->
        CountStatus(table, x) + (IF x = id THEN count ELSE 0)]

\* newNotifyTracker
newNotifyTracker ==
    [notifies |-> {}, tracker |-> << >>, certificates |-> {},
     notificationMessages |-> << >>]
NtHistInit == [ret |-> FALSE, pub |-> 0, first |-> [p \in PubKeys |-> NoMsg]]

\* onCertificate
onCertificate(certificates, k, set) == certificates \cup {calcID(k, set)}

\* HasCertificate
HasCertificate(tracker, k, set) == calcID(k, set) \in tracker.certificates

\* NotificationsCount
NotificationsCount(tracker, s) == CountStatus(tracker.tracker, SetID(s))

\* A tracker for which no key has been seen before.
NeverSeen(notifies, pub) == FALSE

\* OnNotify, the test `_, exist := nt.notifies[pub.String()]`.
AlreadySeen(notifies, pub) == pub \in notifies

\* OnNotify past the test: the tracker after the message was tracked.
Tracked(tracker, msg) ==
    LET setID == SetID(msg.values)
        stored == IF setID \in DOMAIN tracker.notificationMessages
                  THEN tracker.notificationMessages[setID] ELSE << >>
    IN  [notifies |-> tracker.notifies \cup {msg.pub},
         certificates |-> onCertificate(tracker.certificates, msg.k, msg.values),
         tracker |-> Track(tracker.tracker, setID, msg.eligibilityCount),
         notificationMessages |->
             [x \in DOMAIN tracker.notificationMessages \cup {setID} |->
                 IF x = setID THEN Append(stored, msg)
                 ELSE tracker.notificationMessages[x]]]

\* ------------------------------------------------------------------- state

EmptyProposals == [valid |-> {}, potentiallyValid |-> {}]
NoVoters == [r \in Rounds |-> {}]
HistInit == [entered |-> 0, cancelWindow |-> FALSE, accepted |-> FALSE,
             finishedAt |-> ZeroTime]
NoFatal == <<"", 0>>
NoSync == "nil"
StartCallInit == [pc |-> "idle", cancel |-> "nil", layerTicker |-> "nil"]
NilDereference == "invalid memory address or nil pointer dereference"
SyncProviders == {"sync1", "sync2"}
WcInit == [started |-> 0, finished |-> 0, rounds |-> {}, late |-> FALSE,
           log |-> << >>, starts |-> {}]

Init ==
    /\ closed = 0
    /\ starts = 0
    /\ listeners = [live |-> 0, dead |-> 0]
    /\ subscribed = 0
    /\ warnings = 0
    /\ panicked = FALSE
    /\ fatal = NoFatal
    /\ synced \in SUBSET {e \in Epochs : ~IsGenesis(e)}
    /\ overlap \in BOOLEAN
    /\ epochWeight \in {0, EpochWeight}
    /\ signature \in Signatures
    /\ broadcastErr \in BOOLEAN
    /\ sync = NoSync
    /\ epochInProgress = 0
    /\ beacons = [e \in Epochs |-> NoBeacon]
    /\ db = [e \in Epochs |-> NoBeacon]
    /\ dbAttached \in BOOLEAN
    /\ incomingProposals = EmptyProposals
    /\ firstRoundIncomingVotes = << >>
    /\ votesMargin = << >>
    /\ hasVoted = NoVoters
    /\ proposalPhaseFinishedTime = ZeroTime
    /\ now = 1
    /\ proposalChans = [e \in Epochs |-> NoChan]
    /\ pc = [e \in Epochs |-> "idle"]
    /\ ctxDone = [e \in Epochs |-> FALSE]
    /\ timerFired = [e \in Epochs |-> FALSE]
    /\ round = [e \in Epochs |-> firstRound]
    /\ coinFlip = [e \in Epochs |-> FALSE]
    /\ ownLastRoundVotes = [e \in Epochs |-> EmptyVotes]
    /\ lastRoundOwnVotes = [e \in Epochs |-> EmptyVotes]
    /\ sender = [e \in Epochs |-> "idle"]
    /\ pump = [e \in Epochs |-> [pc |-> "idle", attached |-> FALSE]]
    /\ voters = [e \in Epochs |-> {}]
    /\ coinRunners = [e \in Epochs |-> {}]
    /\ closing = 0
    /\ startCall = StartCallInit
    /\ wc = [e \in Epochs |-> WcInit]
    /\ hist = [e \in Epochs |-> HistInit]
    /\ nt = newNotifyTracker
    /\ ntHist = NtHistInit

\* Goroutines of tb.eg that have not returned.
WorkersRunning(e) ==
    \/ sender[e] # "idle"
    \/ pump[e].pc # "idle"
    \/ voters[e] # {}
    \/ coinRunners[e] # {}

\* The layer handler of e or one of its transient workers still runs (the
\* proposal pump lives until its channel is closed and does not count).
Busy(e) ==
    \/ pc[e] # "idle"
    \/ sender[e] # "idle"
    \/ voters[e] # {}
    \/ coinRunners[e] # {}

GoroutinesRunning ==
    \/ listeners.live + listeners.dead > 0
    \/ \E e \in Epochs : pc[e] # "idle" \/ WorkersRunning(e)

panicVars == <<panicked, fatal>>
engineVars == <<closed, starts, listeners, subscribed, warnings, closing,
               startCall,
               synced, overlap, epochWeight, signature, broadcastErr, sync>>
storeVars == <<beacons, db, dbAttached>>
epochStateVars == <<incomingProposals, firstRoundIncomingVotes, votesMargin,
                    hasVoted, proposalPhaseFinishedTime>>
driverVars == <<pc, ctxDone, timerFired, round, coinFlip, ownLastRoundVotes,
                lastRoundOwnVotes>>
workerVars == <<sender, pump, voters, coinRunners>>

NonGenesis == {e \in Epochs : ~IsGenesis(e)}
WcActive(e) == wc[e].started > wc[e].finished
Returned(e) == hist[e].entered > 0 /\ pc[e] = "idle"

\* The context is cancelled inside the window from the start of the proposal
\* phase to the deadline of the last voting round.
InCancelWindow(e) ==
    /\ ~ctxDone[e]
    /\ \/ pc[e] = "proposal"
       \/ pc[e] = "round" /\ ~(round[e] = lastRound /\ timerFired[e])

\* The guard of handleLayer with > in place of >=.
TickedTwiceStrict(inProgress, epoch) == inProgress > epoch

\* epochInProgress >= epoch: "epoch ticked twice".
TickedTwice(inProgress, epoch) == inProgress >= epoch

\* cleanupVotes, under tb.mu.
cleanupVotes ==
    /\ incomingProposals' = EmptyProposals
    /\ firstRoundIncomingVotes' = << >>
    /\ votesMargin' = << >>
    /\ hasVoted' = NoVoters
    /\ proposalPhaseFinishedTime' = ZeroTime

\* The locals of a handler that returned.
ResetLocals(e) ==
    /\ pc' = [pc EXCEPT ![e] = "idle"]
    /\ timerFired' = [timerFired EXCEPT ![e] = FALSE]
    /\ round' = [round EXCEPT ![e] = firstRound]
    /\ coinFlip' = [coinFlip EXCEPT ![e] = FALSE]
    /\ ownLastRoundVotes' = [ownLastRoundVotes EXCEPT ![e] = EmptyVotes]
    /\ lastRoundOwnVotes' = [lastRoundOwnVotes EXCEPT ![e] = EmptyVotes]

\* --------------------------------------------------------- engine lifecycle

\* logger.Panic: the process dies; what it held in memory is gone, the
\* mirror stays.
PanicWith(message, epoch, provider) ==
    /\ panicked' = TRUE
    /\ fatal' = <<message, epoch>>
    /\ closed' = 0
    /\ starts' = starts
    /\ synced' = synced
    /\ overlap' = overlap
    /\ epochWeight' = epochWeight
    /\ broadcastErr' = broadcastErr
    /\ sync' = provider
    /\ signature' = signature
    /\ listeners' = [live |-> 0, dead |-> 0]
    /\ subscribed' = 0
    /\ warnings' = 0
    /\ closing' = 0
    /\ startCall' = StartCallInit
    /\ epochInProgress' = 0
    /\ beacons' = [e \in Epochs |-> NoBeacon]
    /\ incomingProposals' = EmptyProposals
    /\ firstRoundIncomingVotes' = << >>
    /\ votesMargin' = << >>
    /\ hasVoted' = NoVoters
    /\ proposalPhaseFinishedTime' = ZeroTime
    /\ now' = 1
    /\ proposalChans' = [e \in Epochs |-> NoChan]
    /\ pc' = [e \in Epochs |-> "idle"]
    /\ ctxDone' = [e \in Epochs |-> FALSE]
    /\ timerFired' = [e \in Epochs |-> FALSE]
    /\ round' = [e \in Epochs |-> firstRound]
    /\ coinFlip' = [e \in Epochs |-> FALSE]
    /\ ownLastRoundVotes' = [e \in Epochs |-> EmptyVotes]
    /\ lastRoundOwnVotes' = [e \in Epochs |-> EmptyVotes]
    /\ sender' = [e \in Epochs |-> "idle"]
    /\ pump' = [e \in Epochs |-> [pc |-> "idle", attached |-> FALSE]]
    /\ voters' = [e \in Epochs |-> {}]
    /\ coinRunners' = [e \in Epochs |-> {}]
    /\ wc' = [e \in Epochs |-> WcInit]
    /\ hist' = [e \in Epochs |-> HistInit]
    /\ UNCHANGED <<notifyVars, db, dbAttached>>

Panic(message, epoch) == PanicWith(message, epoch, sync)

\* A SetSyncState that stores the provider it is given before it panics.
SetSyncStateReplaces(old, provider) == provider

\* SetSyncState: tb.sync after the call; the call panics when a provider
\* is installed already.
SetSyncStateResult(old, provider) == IF old # NoSync THEN old ELSE provider

\* SetSyncState(s).  The providers are named in the order in which the
\* owner passes them.
SetSyncState(s) ==
    /\ ~panicked
    /\ (sync = NoSync) = (s = "sync1")
    /\ IF sync # NoSync
       THEN PanicWith("sync state provider can be updated only once", 0,
                      SetSyncStateResult(sync, s))
       ELSE /\ sync' = SetSyncStateResult(sync, s)
            /\ UNCHANGED <<notifyVars, closed, starts, listeners, subscribed, warnings,
                           closing, startCall, synced, overlap, epochWeight, signature,
                           broadcastErr, panicVars, epochInProgress, storeVars,
                           epochStateVars, now, proposalChans, driverVars,
                           workerVars, wc, hist>>

\* atomic.CompareAndSwapUint64(&tb.closed, old, new) succeeds.
CompareAndSwap(value, old) == value = old

\* IsClosed: atomic.LoadUint64(&tb.closed) == 0.
IsClosed(value) == value = 0

\* Start once the CAS 0 -> 1 on tb.closed succeeded, run to its end with no
\* other call in between: a fresh context whose cancel function is stored
\* in tb.cancel, initGenesisBeacons, clock.Subscribe and the layer listener.
StartBody ==
  IF sync = NoSync
  THEN Panic("update sync state provider can't be nil", 0)
  ELSE
    /\ closed' = 1
    /\ starts' = starts + 1
    /\ listeners' = [listeners EXCEPT !.live = @ + 1]
    /\ subscribed' = subscribed + 1
    /\ startCall' = [startCall EXCEPT !.cancel = "stored",
                                      !.layerTicker = "subscribed"]
    /\ beacons' = initGenesisBeacons(beacons)
    /\ \E ok \in SUBSET {e \in Epochs : IsGenesis(e)} :
          db' = IF dbAttached
                THEN [e \in Epochs |-> IF e \in ok THEN genesisBeacon ELSE db[e]]
                ELSE db
    /\ UNCHANGED <<notifyVars, warnings, panicVars, synced, overlap, epochWeight, signature, broadcastErr, sync,
                   epochInProgress,
                   dbAttached, epochStateVars, now, proposalChans, driverVars,
                   workerVars, closing, wc, hist>>

\* Start, the CAS succeeds.
Start ==
    /\ ~panicked
    /\ CompareAndSwap(closed, 0)
    /\ startCall.pc = "idle"
    /\ starts < MaxStarts
    /\ StartBody

\* Start called again after a Close.
Restart ==
    /\ ~panicked
    /\ CompareAndSwap(closed, 0)
    /\ startCall.pc = "idle"
    /\ starts > 0
    /\ starts < MaxStarts + MaxRestarts
    /\ StartBody

\* Start, the CAS fails: a warning is logged and nil returned.
StartIgnored ==
    /\ ~panicked
    /\ ~CompareAndSwap(closed, 0)
    /\ warnings < MaxWarnings
    /\ warnings' = warnings + 1
    /\ UNCHANGED <<notifyVars, closed, starts, listeners, subscribed, closing, startCall,
                   synced, overlap, epochWeight, signature, broadcastErr, sync, panicVars,
                   epochInProgress, storeVars,
                   epochStateVars, now, proposalChans, driverVars, workerVars,
                   wc, hist>>

\* Start, lines 158-165, when other calls run between its statements: the
\* CAS 0 -> 1 succeeds and the provider is checked; tb.cancel and
\* tb.layerTicker are still what the calls before left there.
StartCAS ==
    /\ ~panicked
    /\ CompareAndSwap(closed, 0)
    /\ startCall.pc = "idle"
    /\ starts < MaxStarts + MaxRestarts
    /\ IF sync = NoSync
       THEN Panic("update sync state provider can't be nil", 0)
       ELSE /\ closed' = 1
            /\ starts' = starts + 1
            /\ startCall' = [startCall EXCEPT !.pc = "cas"]
            /\ UNCHANGED <<notifyVars, listeners, subscribed, warnings, closing, synced,
                           overlap, epochWeight, signature, broadcastErr, sync,
                           panicVars, epochInProgress, storeVars,
                           epochStateVars, now, proposalChans, driverVars,
                           workerVars, wc, hist>>

\* Start, lines 167-170: context.WithCancel, tb.cancel = cancel,
\* initGenesisBeacons.
StartCancel ==
    /\ ~panicked
    /\ startCall.pc = "cas"
    /\ startCall' = [startCall EXCEPT !.pc = "cancel", !.cancel = "stored"]
    /\ beacons' = initGenesisBeacons(beacons)
    /\ \E ok \in SUBSET {e \in Epochs : IsGenesis(e)} :
          db' = IF dbAttached
                THEN [e \in Epochs |-> IF e \in ok THEN genesisBeacon ELSE db[e]]
                ELSE db
    /\ UNCHANGED <<notifyVars, closed, starts, listeners, subscribed, warnings, closing,
                   synced, overlap, epochWeight, signature, broadcastErr, sync,
                   panicVars, epochInProgress, dbAttached, epochStateVars, now,
                   proposalChans, driverVars, workerVars, wc, hist>>

\* Start, lines 171-178: tb.layerTicker = tb.clock.Subscribe() and the layer
\* listener, whose context a Close may have cancelled already.
StartListen ==
    /\ ~panicked
    /\ startCall.pc = "cancel"
    /\ startCall' = [startCall EXCEPT !.pc = "idle",
                                      !.layerTicker = "subscribed"]
    /\ subscribed' = subscribed + 1
    /\ listeners' = IF startCall.cancel = "called"
                    THEN [listeners EXCEPT !.dead = @ + 1]
                    ELSE [listeners EXCEPT !.live = @ + 1]
    /\ UNCHANGED <<notifyVars, closed, starts, warnings, closing, synced, overlap,
                   epochWeight, signature, broadcastErr, sync, panicVars,
                   epochInProgress, storeVars, epochStateVars, now,
                   proposalChans, driverVars, workerVars, wc, hist>>

\* tb.cancel(): the call of a nil function value is a run-time panic.
CancelCallable(cancel) == cancel # "nil"

\* Close up to tb.cancel(): the CAS 1 -> 0, then the context that tb.cancel
\* belongs to is cancelled, and with it that of every goroutine derived from
\* it.
Close ==
  /\ ~panicked
  /\ closed = 1
  /\ IF ~CancelCallable(startCall.cancel)
     THEN Panic(NilDereference, 0)
     ELSE
    /\ closed' = 0
    /\ closing' = closing + 1
    /\ startCall' = [startCall EXCEPT !.cancel = "called"]
    /\ listeners' = [live |-> 0, dead |-> listeners.dead + listeners.live]
    /\ ctxDone' = [e \in Epochs |->
                     ctxDone[e] \/ pc[e] # "idle" \/ WorkersRunning(e)]
    /\ hist' = [e \in Epochs |->
                  [hist[e] EXCEPT !.cancelWindow = @ \/ InCancelWindow(e)]]
    /\ UNCHANGED <<notifyVars, starts, subscribed, warnings, panicVars, synced, overlap,
                   epochWeight, signature, broadcastErr, sync,
                   epochInProgress, storeVars,
                   epochStateVars, now, proposalChans, pc, timerFired, round, coinFlip,
                   ownLastRoundVotes, lastRoundOwnVotes, workerVars, wc>>

\* Close from tb.eg.Wait() on: every goroutine has returned;
\* clock.Unsubscribe(tb.layerTicker).
CloseReturn ==
    /\ ~panicked
    /\ closing > 0
    /\ ~GoroutinesRunning
    /\ closing' = closing - 1
    /\ subscribed' = IF startCall.layerTicker = "subscribed"
                     THEN subscribed - 1 ELSE subscribed
    /\ startCall' = [startCall EXCEPT !.layerTicker =
                        IF @ = "subscribed" THEN "unsubscribed" ELSE @]
    /\ UNCHANGED <<notifyVars, closed, starts, listeners, warnings, panicVars, synced, overlap,
                   epochWeight, signature, broadcastErr, sync,
                   epochInProgress, storeVars, epochStateVars, now,
                   proposalChans, driverVars, workerVars, wc, hist>>

\* listenLayers receives the tick of the first layer of an epoch and spawns
\* handleLayer, which runs its section under tb.mu: the epoch ticked twice (a
\* panic), or it becomes the epoch in progress and the handler waits for the
\* stabilisation timer.  A listener whose context is done may still take the
\* tick: both cases of its select are ready.
handleLayer(layer, live) ==
    /\ ~panicked
    /\ IF live THEN listeners.live > 0 ELSE listeners.dead > 0
    /\ FirstInEpoch(layer)
    /\ LET e == GetEpoch(layer) IN
       /\ pc[e] = "idle"
       /\ overlap \/ \A x \in Epochs \ {e} : ~Busy(x)
       /\ IF TickedTwice(epochInProgress, e)
          THEN Panic("epoch ticked twice", e)
          ELSE /\ epochInProgress' = e
               /\ hist' = [hist EXCEPT ![e].accepted = TRUE]
               /\ pc' = [pc EXCEPT ![e] = "hl_wait"]
               /\ ctxDone' = [ctxDone EXCEPT
                                ![e] = IF WorkersRunning(e) THEN @ ELSE ~live]
               /\ UNCHANGED <<notifyVars, engineVars, panicVars, storeVars, epochStateVars,
                              now, proposalChans, timerFired, round, coinFlip,
                              ownLastRoundVotes, lastRoundOwnVotes, workerVars,
                              wc>>

\* handleLayer of a layer that is not the first of its epoch: returns at once.
handleLayerSkip(layer) ==
    /\ ~panicked
    /\ listeners.live + listeners.dead > 0
    /\ ~FirstInEpoch(layer)
    /\ UNCHANGED vars

\* listenLayers returns on ctx.Done().
listenLayersExit ==
    /\ ~panicked
    /\ listeners.dead > 0
    /\ listeners' = [listeners EXCEPT !.dead = @ - 1]
    /\ UNCHANGED <<notifyVars, closed, starts, subscribed, warnings, closing, startCall,
                   panicVars, synced, overlap, epochWeight, signature, broadcastErr, sync,
                   epochInProgress, storeVars, epochStateVars, now,
                   proposalChans, driverVars, workerVars, wc, hist>>

\* handleLayer, the select: ctx.Done() before the stabilisation timer.
handleLayerCancelled(e) ==
    /\ ~panicked
    /\ pc[e] = "hl_wait"
    /\ ctxDone[e]
    /\ pc' = [pc EXCEPT ![e] = "idle"]
    /\ UNCHANGED <<notifyVars, engineVars, panicVars, epochInProgress, storeVars,
                   epochStateVars, now, proposalChans, ctxDone, timerFired,
                   round, coinFlip, ownLastRoundVotes, lastRoundOwnVotes,
                   workerVars, wc, hist>>

\* A driver that skips the protocol in genesis epochs only.
SkipsOnlyGenesis(genesis, isSynced) == genesis

\* The early returns of handleEpoch: epoch.IsGenesis(), !tb.sync.IsSynced(ctx).
SkipsProtocol(genesis, isSynced) == genesis \/ ~isSynced

\* handleEpoch up to the start of the proposal phase: the stabilisation timer
\* fired; genesis and unsynced epochs return; otherwise the channel of the
\* previous epoch is closed, the channel of this one created, and the
\* proposal pump and the proposal sender are spawned.
handleEpoch(e) ==
    /\ ~panicked
    /\ pc[e] = "hl_wait"
    /\ IF SkipsProtocol(IsGenesis(e), e \in synced)
         THEN /\ pc' = [pc EXCEPT ![e] = "idle"]
              /\ UNCHANGED <<notifyVars, proposalChans, pump, sender, hist>>
         ELSE LET afterClose == IF e > 0
                                THEN closeProposalChannel(proposalChans, e - 1)
                                ELSE proposalChans
                  detach == e > 0 /\ ClosesChannel(proposalChans, e - 1)
              IN  /\ proposalChans' = getOrCreateProposalChannel(afterClose, e)
                  /\ pump' = [x \in Epochs |->
                                IF x = e THEN [pc |-> "run", attached |-> TRUE]
                                ELSE IF x = e - 1 /\ detach
                                     THEN [pump[x] EXCEPT !.attached = FALSE]
                                     ELSE pump[x]]
                  /\ sender' = [sender EXCEPT ![e] = "run"]
                  /\ pc' = [pc EXCEPT ![e] = "proposal"]
                  /\ hist' = [hist EXCEPT ![e].entered = @ + 1]
    /\ UNCHANGED <<notifyVars, engineVars, panicVars, epochInProgress, storeVars,
                   epochStateVars, now, ctxDone, timerFired, round, coinFlip,
                   ownLastRoundVotes, lastRoundOwnVotes, voters, coinRunners,
                   wc>>

\* runProposalPhase from <-ctx.Done() on (the timeout or the cancellation),
\* markProposalPhaseFinished, then the head of runConsensusPhase:
\* startWeakCoinEpoch (which panics when the ATXs cannot be loaded), the round
\* timer, and the two goroutines of the first round.
runProposalPhase(e) ==
    /\ ~panicked
    /\ pc[e] = "proposal"
    /\ \E atxOK \in BOOLEAN :
         IF ~atxOK
         THEN Panic("unable to load list of atxs", e)
         ELSE /\ now' = now + 1
              /\ proposalPhaseFinishedTime' = markProposalPhaseFinished(now + 1)
              /\ hist' = [hist EXCEPT ![e].finishedAt = now + 1]
              /\ wc' = [wc EXCEPT ![e].started = @ + 1]
              /\ pc' = [pc EXCEPT ![e] = "round"]
              /\ timerFired' = [timerFired EXCEPT ![e] = FALSE]
              /\ round' = [round EXCEPT ![e] = firstRound]
              /\ coinFlip' = [coinFlip EXCEPT ![e] = FALSE]
              /\ voters' = [voters EXCEPT ![e] = @ \cup {<<firstRound, FALSE>>}]
              /\ coinRunners' = [coinRunners EXCEPT ![e] = @ \cup {firstRound}]
              /\ UNCHANGED <<notifyVars, engineVars, panicVars, epochInProgress, storeVars,
                             incomingProposals, firstRoundIncomingVotes,
                             votesMargin, hasVoted, proposalChans, ctxDone,
                             ownLastRoundVotes, lastRoundOwnVotes, sender,
                             pump>>

\* The round timer of runConsensusPhase fires.
TimerFire(e) ==
    /\ ~panicked
    /\ pc[e] = "round"
    /\ ~timerFired[e]
    /\ timerFired' = [timerFired EXCEPT ![e] = TRUE]
    /\ UNCHANGED <<notifyVars, engineVars, panicVars, epochInProgress, storeVars,
                   epochStateVars, now, proposalChans, pc, ctxDone, round,
                   coinFlip, ownLastRoundVotes, lastRoundOwnVotes, workerVars,
                   wc, hist>>

\* runConsensusPhase, case <-timer.C of the select: the timer is reset,
\* weakCoin.FinishRound(), coinFlip = weakCoin.Get(epoch, round); then either
\* the next round with its two goroutines, or the loop ends: ownLastRoundVotes
\* is read and returned, and the deferred FinishEpoch runs.
runConsensusPhase(e) ==
    /\ ~panicked
    /\ pc[e] = "round"
    /\ TimerCaseReady(timerFired[e])
    /\ timerFired' = [timerFired EXCEPT ![e] = FALSE]
    /\ \E c \in BOOLEAN :
         IF LoopContinues(round[e])
         THEN /\ wc' = [wc EXCEPT ![e].rounds = @ \cup {round[e]},
                                  ![e].late = @ \/ ~WcActive(e),
                                  ![e].log = @ \o RoundCalls(round[e])]
              /\ round' = [round EXCEPT ![e] = @ + 1]
              /\ coinFlip' = [coinFlip EXCEPT ![e] = c]
              /\ voters' = [voters EXCEPT
                            ![e] = @ \cup {<<round[e] + 1, PreviousCoinFlip(c)>>}]
              /\ coinRunners' = [coinRunners EXCEPT ![e] = @ \cup {round[e] + 1}]
              /\ UNCHANGED <<notifyVars, pc, lastRoundOwnVotes, ownLastRoundVotes>>
         ELSE /\ wc' = [wc EXCEPT ![e].rounds = @ \cup {round[e]},
                                  ![e].late = @ \/ ~WcActive(e),
                                  ![e].log = @ \o RoundCalls(round[e]),
                                  ![e].finished = @ + 1]
              /\ pc' = [pc EXCEPT ![e] = "tally"]
              /\ lastRoundOwnVotes' =
                    [lastRoundOwnVotes EXCEPT ![e] = ownLastRoundVotes[e]]
              /\ ownLastRoundVotes' = [ownLastRoundVotes EXCEPT ![e] = EmptyVotes]
              /\ round' = [round EXCEPT ![e] = firstRound]
              /\ coinFlip' = [coinFlip EXCEPT ![e] = FALSE]
              /\ UNCHANGED <<notifyVars, voters, coinRunners>>
    /\ UNCHANGED <<notifyVars, engineVars, panicVars, epochInProgress, storeVars,
                   epochStateVars, now, proposalChans, ctxDone, sender, pump,
                   hist>>

\* runConsensusPhase, case <-ctx.Done() of the select: it returns ctx.Err(),
\* the deferred FinishEpoch runs, handleEpoch returns and its deferred
\* cleanupVotes runs.
runConsensusPhaseCancelled(e) ==
    /\ ~panicked
    /\ pc[e] = "round"
    /\ ctxDone[e]
    /\ wc' = [wc EXCEPT ![e].finished = @ + 1]
    /\ cleanupVotes
    /\ ResetLocals(e)
    /\ UNCHANGED <<notifyVars, engineVars, panicVars, epochInProgress, storeVars, now,
                   proposalChans, ctxDone, workerVars, hist>>

\* calcBeacon: the hash of the sorted valid votes of the last round is stored
\* in memory and in the mirror (whose write may fail); then handleEpoch
\* returns and its deferred cleanupVotes runs.
calcBeacon(e) ==
    /\ ~panicked
    /\ pc[e] = "tally"
    /\ LET beacon == Hash(SortProposals(lastRoundOwnVotes[e].valid)) IN
       /\ beacons' = setBeacon(beacons, e, beacon)
       /\ \E ok \in BOOLEAN :
            db' = IF dbAttached /\ ok THEN [db EXCEPT ![e] = beacon] ELSE db
    /\ cleanupVotes
    /\ ResetLocals(e)
    /\ UNCHANGED <<notifyVars, engineVars, panicVars, epochInProgress, dbAttached, now,
                   proposalChans, ctxDone, workerVars, wc, hist>>

\* ------------------------------------------------------- transient workers

\* proposalPhaseImpl up to the return of sendToGossip: the epoch weight is
\* read, the own proposal is tested against the eligibility threshold (an
\* error for a zero weight) and, if it passes, broadcast.
proposalPhaseImpl(e) ==
    /\ ~panicked
    /\ sender[e] = "run"
    /\ LET test == proposalPassesEligibilityThreshold(signature, epochWeight)
           sends == test.err = "" /\ test.passes
       IN  /\ sender' = [sender EXCEPT
                           ![e] = IF sends /\ ~broadcastErr THEN "sent" ELSE "idle"]
           /\ ctxDone' = [ctxDone EXCEPT
                            ![e] = IF sends /\ broadcastErr
                                   THEN AfterSendError(@) ELSE @]
    /\ UNCHANGED <<notifyVars, engineVars, panicVars, epochInProgress, storeVars,
                   epochStateVars, now, proposalChans, pc, timerFired, round,
                   coinFlip, ownLastRoundVotes, lastRoundOwnVotes, pump,
                   voters, coinRunners, wc, hist>>

\* proposalPhaseImpl after the broadcast: under tb.mu the own proposal is
\* appended to incomingProposals.valid.
proposalPhaseImplInsert(e) ==
    /\ ~panicked
    /\ sender[e] = "sent"
    /\ sender' = [sender EXCEPT ![e] = "idle"]
    /\ incomingProposals' =
          [incomingProposals EXCEPT !.valid = @ \cup {OwnProposal(e)}]
    /\ UNCHANGED <<notifyVars, engineVars, panicVars, epochInProgress, storeVars,
                   firstRoundIncomingVotes, votesMargin, hasVoted,
                   proposalPhaseFinishedTime, now, proposalChans, driverVars,
                   pump, voters, coinRunners, wc, hist>>

\* handleProposalMessage: a message is refused when its signature or its
\* eligibility is bad or its epoch is not the epoch in progress.
handleProposalMessageFails(m, epoch) == ~m.good \/ epoch # epochInProgress

PumpExit(e) == [pump EXCEPT ![e] = [pc |-> "idle", attached |-> FALSE]]

\* readProposalMessagesLoop, case <-ctx.Done().
readProposalMessagesLoopCancelled(e) ==
    /\ ~panicked
    /\ pump[e].pc = "run"
    /\ ctxDone[e]
    /\ pump' = PumpExit(e)
    /\ UNCHANGED <<notifyVars, engineVars, panicVars, epochInProgress, storeVars,
                   epochStateVars, now, proposalChans, driverVars, sender,
                   voters, coinRunners, wc, hist>>

\* readProposalMessagesLoop, a receive of nil from the closed channel.
readProposalMessagesLoopClosed(e) ==
    /\ ~panicked
    /\ pump[e].pc = "run"
    /\ ~pump[e].attached
    /\ pump' = PumpExit(e)
    /\ UNCHANGED <<notifyVars, engineVars, panicVars, epochInProgress, storeVars,
                   epochStateVars, now, proposalChans, driverVars, sender,
                   voters, coinRunners, wc, hist>>

\* A pump that reports every message it has handled, whatever the result.
ReportsAlways(failed) == TRUE

\* readProposalMessagesLoop after handleProposalMessage: the loop goes on to
\* em.gossip.ReportValidation when the error is nil, and returns otherwise.
ReportsValidation(failed) == ~failed

\* readProposalMessagesLoop, a message is received and handled: the
\* proposal of an admitted message is classified by its receipt time; on an
\* error the loop returns, otherwise it goes on to report the message.
readProposalMessagesLoop(e) ==
    /\ ~panicked
    /\ pump[e].pc = "run"
    /\ pump[e].attached
    /\ Len(proposalChans[e].buf) > 0
    /\ LET m == Head(proposalChans[e].buf)
           failed == handleProposalMessageFails(m, e)
       IN  /\ proposalChans' = [proposalChans EXCEPT ![e].buf = Tail(@)]
           /\ incomingProposals' =
                 IF failed THEN incomingProposals
                 ELSE IF receivedBeforeProposalPhaseFinished(
                             proposalPhaseFinishedTime, m.recv)
                 THEN [incomingProposals EXCEPT !.valid = @ \cup {m.prop}]
                 ELSE [incomingProposals EXCEPT
                         !.potentiallyValid = @ \cup {m.prop}]
           /\ pump' = IF ReportsValidation(failed)
                      THEN [pump EXCEPT ![e].pc = "report"]
                      ELSE PumpExit(e)
    /\ UNCHANGED <<notifyVars, engineVars, panicVars, epochInProgress, storeVars,
                   firstRoundIncomingVotes, votesMargin, hasVoted,
                   proposalPhaseFinishedTime, now, driverVars, sender, voters,
                   coinRunners, wc, hist>>

\* readProposalMessagesLoop, em.gossip.ReportValidation(ctx,
\* TBProposalProtocol); the loop then selects again.
ReportValidation(e) ==
    /\ ~panicked
    /\ pump[e].pc = "report"
    /\ pump' = [pump EXCEPT ![e].pc = "run"]
    /\ UNCHANGED <<notifyVars, engineVars, panicVars, epochInProgress, storeVars,
                   epochStateVars, now, proposalChans, driverVars, sender,
                   voters, coinRunners, wc, hist>>

\* The own-vote goroutine of a round: sendProposalVote in the first round;
\* in the others calcVotes (which may fail), the store into ownLastRoundVotes
\* in the last round, and sendFollowingVote.
sendVote(e, v) ==
    /\ ~panicked
    /\ v \in voters[e]
    /\ voters' = [voters EXCEPT ![e] = @ \ {v}]
    /\ \E calcOK \in BOOLEAN :
         /\ ownLastRoundVotes' =
               IF v[1] # firstRound /\ calcOK /\ v[1] = lastRound /\ pc[e] = "round"
               THEN [ownLastRoundVotes EXCEPT ![e] = calcVotes(votesMargin, v[2])]
               ELSE ownLastRoundVotes
         /\ ctxDone' = [ctxDone EXCEPT
                          ![e] = IF (v[1] = firstRound \/ calcOK) /\ broadcastErr
                                 THEN AfterSendError(@) ELSE @]
    /\ UNCHANGED <<notifyVars, engineVars, panicVars, epochInProgress, storeVars,
                   epochStateVars, now, proposalChans, pc, timerFired,
                   round, coinFlip, lastRoundOwnVotes, sender, pump,
                   coinRunners, wc, hist>>

\* startWeakCoinRound, case <-t.C: weakCoin.StartRound(ctx, round).
startWeakCoinRound(e, r) ==
    /\ ~panicked
    /\ r \in coinRunners[e]
    /\ coinRunners' = [coinRunners EXCEPT ![e] = @ \ {r}]
    /\ wc' = [wc EXCEPT ![e].late = @ \/ ~WcActive(e),
                         ![e].starts = @ \cup {r}]
    /\ UNCHANGED <<notifyVars, engineVars, panicVars, epochInProgress, storeVars,
                   epochStateVars, now, proposalChans, driverVars, sender, pump,
                   voters, hist>>

\* startWeakCoinRound, case <-ctx.Done().
startWeakCoinRoundCancelled(e, r) ==
    /\ ~panicked
    /\ r \in coinRunners[e]
    /\ ctxDone[e]
    /\ coinRunners' = [coinRunners EXCEPT ![e] = @ \ {r}]
    /\ UNCHANGED <<notifyVars, engineVars, panicVars, epochInProgress, storeVars,
                   epochStateVars, now, proposalChans, driverVars, sender, pump,
                   voters, wc, hist>>

\* ----------------------------------------------------------- gossip, calls

\* HandleSerializedProposalMessage: the message of a peer is queued, with its
\* receipt time, on the channel of its epoch, which is created if missing.
\* Peers propose for the epoch in progress.
HandleSerializedProposalMessage(e, good) ==
    /\ ~panicked
    /\ closed = 1
    /\ e = epochInProgress
    /\ LET chans == getOrCreateProposalChannel(proposalChans, e) IN
       /\ Len(chans[e].buf) < MaxChan
       /\ proposalChans' =
             [chans EXCEPT ![e].buf =
                 Append(@, [prop |-> CHOOSE p \in PeerProposals(e) : TRUE, good |-> good, recv |-> now])]
    /\ UNCHANGED <<notifyVars, engineVars, panicVars, epochInProgress, storeVars,
                   epochStateVars, now, driverVars, workerVars, wc, hist>>

\* HandleSerializedFirstVotingMessage: the first vote of a sender in the epoch
\* in progress credits its weight to the proposals it holds valid; a second
\* one is ignored.
HandleSerializedFirstVotingMessage(s, valid, potentiallyValid) ==
    /\ ~panicked
    /\ closed = 1
    /\ pc[epochInProgress] = "round"
    /\ s \notin hasVoted[firstRound]
    /\ hasVoted' = [hasVoted EXCEPT ![firstRound] = @ \cup {s}]
    /\ firstRoundIncomingVotes' =
          [x \in DOMAIN firstRoundIncomingVotes \cup {s} |->
              IF x = s THEN [valid |-> valid, potentiallyValid |-> potentiallyValid]
              ELSE firstRoundIncomingVotes[x]]
    /\ votesMargin' =
          [p \in DOMAIN votesMargin \cup valid \cup potentiallyValid |->
              (IF p \in DOMAIN votesMargin THEN votesMargin[p] ELSE 0)
              + (IF p \in valid THEN EpochWeight ELSE 0)]
    /\ UNCHANGED <<notifyVars, engineVars, panicVars, epochInProgress, storeVars,
                   incomingProposals, proposalPhaseFinishedTime, now,
                   proposalChans, driverVars, workerVars, wc, hist>>

\* A call of GetBeacon(target); the mirror answers with what it holds or fails.
CallGetBeacon(target) ==
    /\ ~panicked
    /\ target \in Targets
    /\ UNCHANGED vars

\* Start, the listener and the layer handlers up to the entry of the
\* protocol.
Listening ==
    \/ \E s \in SyncProviders : SetSyncState(s)
    \/ Start
    \/ \E layer \in Layers, live \in BOOLEAN : handleLayer(layer, live)
    \/ \E layer \in Layers : handleLayerSkip(layer)
    \/ \E e \in Epochs : handleEpoch(e)

\* The listener, the layer handlers and the round driver.
Driving ==
    \/ Listening
    \/ \E e \in Epochs : runProposalPhase(e)
    \/ \E e \in Epochs : TimerFire(e)
    \/ \E e \in Epochs : runConsensusPhase(e)
    \/ \E e \in Epochs : calcBeacon(e)

\* The goroutines the driver spawns.
Working ==
    \/ \E e \in Epochs : proposalPhaseImpl(e)
    \/ \E e \in Epochs : proposalPhaseImplInsert(e)
    \/ \E e \in Epochs : \E v \in voters[e] : sendVote(e, v)
    \/ \E e \in Epochs, r \in Rounds : startWeakCoinRound(e, r)

Running == Driving \/ Working

\* What the start of the next synced epoch makes the pump of an epoch do.
Succeeding == \E e \in Epochs : readProposalMessagesLoopClosed(e)

\* Close, and what the cancellation of the context makes the listener and
\* the layer handlers do.
Halting ==
    \/ Close
    \/ CloseReturn
    \/ listenLayersExit
    \/ \E e \in Epochs : handleLayerCancelled(e)

\* Close, and what the cancellation of the context makes the goroutines do.
Stopping ==
    \/ Halting
    \/ \E e \in Epochs : runConsensusPhaseCancelled(e)
    \/ \E e \in Epochs : readProposalMessagesLoopCancelled(e)
    \/ \E e \in Epochs, r \in Rounds : startWeakCoinRoundCancelled(e, r)

\* Peers that vote, and callers of GetBeacon.
Voting ==
    \/ \E s \in Peers :
       \E valid \in SUBSET PeerProposals(epochInProgress) :
       \E potentiallyValid \in SUBSET (PeerProposals(epochInProgress) \ valid) :
          HandleSerializedFirstVotingMessage(s, valid, potentiallyValid)
    \/ \E target \in Targets : CallGetBeacon(target)

\* Peers that send proposals.
Proposing ==
    \/ \E e \in NonGenesis, good \in BOOLEAN :
          HandleSerializedProposalMessage(e, good)
    \/ \E e \in Epochs : readProposalMessagesLoop(e)
    \/ \E e \in Epochs : ReportValidation(e)

\* The engine among voting peers, with or without a mirror, one epoch at a
\* time; the node is synced in at most MaxSynced epochs.
\* An epoch weight and a signature of the node that make its proposal
\* eligible.
InitEligible == Init /\ epochWeight = EpochWeight /\ signature = 0

\* The same on a network whose Broadcast succeeds.
InitConnected == InitEligible /\ ~broadcastErr

InitSpec == InitEligible /\ ~overlap /\ Cardinality(synced) <= MaxSynced

Next == Running \/ Stopping \/ Voting

Spec == InitSpec /\ [][Next]_vars

\* The engine among proposing peers, without a mirror, one epoch at a time.
InitGossip ==
    InitConnected /\ ~dbAttached /\ ~overlap /\ Cardinality(synced) <= MaxSynced

NextGossip == Running \/ Stopping \/ Proposing

SpecGossip == InitGossip /\ [][NextGossip]_vars

\* The engine that is never closed, synced in every epoch, one epoch at a
\* time, among proposing peers.
InitChannels == InitConnected /\ ~dbAttached /\ ~overlap /\ synced = NonGenesis

NextChannels == Running \/ Succeeding \/ Proposing

SpecChannels == InitChannels /\ [][NextChannels]_vars

\* The layer handlers and round drivers of an engine that is never closed and
\* synced in every epoch, under a layer clock that outruns the protocol, up to
\* the moment the first spawned goroutine is scheduled.
InitEpochs == InitConnected /\ ~dbAttached /\ overlap /\ synced = NonGenesis

SpecEpochs == InitEpochs /\ [][Driving]_vars

\* The life cycle of an engine whose owner starts it twice and restarts it
\* after a Close, on a node that is never synced.
InitLifecycle == InitConnected /\ ~dbAttached /\ overlap /\ synced = {}

Restarting == Restart \/ StartIgnored

NextLifecycle == Listening \/ Halting \/ Restarting

SpecLifecycle == InitLifecycle /\ [][NextLifecycle]_vars

\* A Start whose statements other calls run between.
Starting == StartCAS \/ StartCancel \/ StartListen

NextStartClose == NextLifecycle \/ Starting

\* Start and Close called from different goroutines.
SpecStartClose == InitLifecycle /\ [][NextStartClose]_vars

\* The protocol of one epoch on an engine that is never closed, for every
\* epoch weight and every signature of the node.
InitProposal == Init /\ ~dbAttached /\ ~overlap /\ Cardinality(synced) <= MaxSynced

SpecProposal == InitProposal /\ [][Running]_vars

\* OnNotify(msg): a message of a key seen before is ignored and true is
\* returned; otherwise the message is tracked and false is returned.
OnNotify(msg) ==
    /\ LET exist == AlreadySeen(nt.notifies, msg.pub) IN
       /\ nt' = IF exist THEN nt ELSE Tracked(nt, msg)
       /\ ntHist' = [ret |-> exist, pub |-> msg.pub,
                     first |-> IF ntHist.first[msg.pub] = NoMsg
                               THEN [ntHist.first EXCEPT ![msg.pub] = msg]
                               ELSE ntHist.first]
    /\ UNCHANGED tbVars

NextNotify == \E msg \in Msgs : OnNotify(msg)

\* A notify tracker that is handed validated notify messages.
SpecNotify == InitLifecycle /\ [][NextNotify]_vars

\* ------------------------------------------------------------ tb.mu

\* The access to a field guarded by tb.mu that the next step of a goroutine
\* (or of a caller of the engine) makes, with the mode in which the code
\* holds tb.mu around it: "W" for Lock, "R" for RLock, "none" for no lock.
Access(worker, field, write, lock) ==
    [worker |-> worker, field |-> field, write |-> write, lock |-> lock]

PendingAccesses ==
    \* Start: initGenesisBeacons stores into tb.beacons.
    {Access(<<"Start", 0, 0>>, "beacons", TRUE, "none") : x \in
        {y \in {0} : ~panicked /\ closed = 0 /\ starts < MaxStarts + MaxRestarts}}
    \* a caller of GetBeacon reads tb.beacons.
    \cup {Access(<<"GetBeacon", 0, 0>>, "beacons", FALSE, "R") : x \in
        {y \in {0} : ~panicked}}
    \* handleEpoch: closeProposalChannel and getOrCreateProposalChannel.
    \cup {Access(<<"handleEpoch", e, 0>>, "proposalChans", TRUE, "W") : e \in
        {y \in Epochs : pc[y] = "hl_wait"
                         /\ ~SkipsProtocol(IsGenesis(y), y \in synced)}}
    \* runProposalPhase: markProposalPhaseFinished.
    \cup {Access(<<"handleEpoch", e, 0>>, "proposalPhaseFinishedTime", TRUE, "W") :
        e \in {y \in Epochs : pc[y] = "proposal"}}
    \* calcBeacon: setBeacon.
    \cup {Access(<<"handleEpoch", e, 0>>, "beacons", TRUE, "W") :
        e \in {y \in Epochs : pc[y] = "tally"}}
    \* the deferred cleanupVotes of handleEpoch.
    \cup {Access(<<"handleEpoch", e, 0>>, "incomingProposals", TRUE, "W") :
        e \in {y \in Epochs : pc[y] = "tally" \/ (pc[y] = "round" /\ ctxDone[y])}}
    \* proposalPhaseImpl: the append to incomingProposals.valid.
    \cup {Access(<<"proposalPhaseImpl", e, 0>>, "incomingProposals", TRUE, "W") :
        e \in {y \in Epochs : sender[y] = "sent"}}
    \* sendProposalVote reads tb.incomingProposals; sendFollowingVote reads
    \* it in encodeVotes.
    \cup UNION {{Access(<<"sendVote", e, v[1]>>, "incomingProposals", FALSE,
                        IF v[1] = firstRound THEN "none" ELSE "R") :
                    v \in voters[e]} : e \in Epochs}

\* ------------------------------------------------------------------ claims

\* The eligibility test of proposalPhaseImpl on the node's own signature.
OwnProposalPasses ==
    proposalPassesEligibilityThreshold(signature, epochWeight).passes

\* The per-epoch state cleanupVotes resets.
EpochStateEmpty ==
    /\ incomingProposals = EmptyProposals
    /\ firstRoundIncomingVotes = << >>
    /\ votesMargin = << >>
    /\ hasVoted = NoVoters
    /\ proposalPhaseFinishedTime = ZeroTime

\* C1: all the GetBeacon(E) calls of a run that succeed return the same
\* value: in no state can a call return two values, and once a call can return
\* a value no later call returns another one.
C1_GetBeaconOneValue ==
    /\ [](\A t \in Targets \ {0} : Cardinality(GetBeaconValues(t)) <= 1)
    /\ [][\A t \in Targets \ {0} :
            GetBeaconValues(t) # {} => GetBeaconValues(t)' \subseteq GetBeaconValues(t)]_vars

\* GetBeacon(E + 1) answers from memory the beacon of a non-genesis epoch E
\* that the mirror does not hold.
C1_Witness ==
    \E e \in NonGenesis :
        /\ dbAttached
        /\ db[e] = NoBeacon
        /\ beacons[e] # NoBeacon
        /\ GetBeaconValues(e + 1) = {beacons[e]}

\* C2: the round driver is entered at most once per non-genesis epoch, and an
\* in-memory beacon entry that is present is never replaced by another value
\* while the process lives.
C2_BeaconWrittenOnce ==
    /\ [](\A e \in NonGenesis : hist[e].entered <= 1)
    /\ [][\A e \in NonGenesis :
            beacons[e] # NoBeacon => beacons'[e] = beacons[e] \/ panicked']_vars

\* The driver of a non-genesis epoch was entered, wrote the beacon and
\* returned.
C2_Witness ==
    \E e \in NonGenesis :
        hist[e].entered = 1 /\ beacons[e] # NoBeacon /\ pc[e] = "idle"

\* C3: when the context of an epoch is cancelled between the start of the
\* proposal phase and the deadline of the last round, no beacon of the epoch
\* is written, in memory or in the mirror, and GetBeacon(E + 1) returns no
\* value.
C3_NoBeaconAfterCancel ==
    \A e \in NonGenesis :
        hist[e].cancelWindow =>
            /\ beacons[e] = NoBeacon
            /\ db[e] = NoBeacon
            /\ GetBeaconValues(e + 1) = {}

\* C4: when the driver hands the votes of the last round to the tally, the
\* own-vote worker of the last round has finished.
C4_LastRoundVotesJoined ==
    \A e \in Epochs :
        pc[e] = "tally" => \A v \in voters[e] : v[1] # lastRound

\* C5: the round drivers of two epochs never run at the same time.
C5_OneDriver == Cardinality({e \in Epochs : pc[e] \in DriverPhases}) <= 1

\* C6: the step that starts the driver of epoch E leaves no proposal channel
\* of epoch E - 1 in the channel map.
C6_PreviousChannelClosed ==
    [][\A e \in NonGenesis :
          pc[e] = "hl_wait" /\ pc'[e] = "proposal"
              => ~proposalChans'[e - 1].exists]_vars

\* C7: while the driver of an epoch runs, its context is not cancelled and
\* its proposal channel is open, the proposal pump of the epoch runs.
C7_PumpKeepsDraining ==
    \A e \in NonGenesis :
        pc[e] \in DriverPhases /\ ~ctxDone[e] /\ proposalChans[e].exists
            => pump[e].pc # "idle"

\* C8: once handleEpoch(E) has returned after starting the protocol, and
\* while no driver runs, the per-epoch state is empty.
C8_EpochStateTornDown ==
    \A e \in NonGenesis :
        Returned(e) /\ (\A x \in Epochs : pc[x] \notin DriverPhases)
            => EpochStateEmpty

\* C9: FinishEpoch is called once per StartEpoch before handleEpoch returns,
\* and StartRound, FinishRound and Get are called only between the two.
C9_WeakCoinCallsInsideEpoch ==
    \A e \in Epochs :
        /\ wc[e].finished <= wc[e].started
        /\ wc[e].started <= 1
        /\ Returned(e) => wc[e].finished = wc[e].started
        /\ ~wc[e].late

\* C10: the beacon of an epoch is tallied and written only after FinishRound
\* has returned for every voting round of the epoch.
C10_BeaconAfterAllRounds ==
    \A e \in NonGenesis :
        pc[e] = "tally" \/ beacons[e] # NoBeacon => wc[e].rounds = Rounds

\* The beacon of a non-genesis epoch was written after its weak-coin epoch
\* was finished.
C10_Witness ==
    \E e \in NonGenesis :
        /\ beacons[e] # NoBeacon
        /\ wc[e].rounds = Rounds
        /\ wc[e].finished = 1

\* C11: the driver reads weakCoin.Get(E, r) only after its FinishRound call
\* of round r, and once for every round it finished.
C11_GetAfterFinishRound ==
    \A e \in Epochs :
        LET log == wc[e].log IN
        \A r \in Rounds :
            LET gets == {i \in DOMAIN log : log[i] = <<"Get", r>>}
                ends == {i \in DOMAIN log : log[i] = <<"FinishRound", r>>}
            IN  /\ Cardinality(gets) = Cardinality(ends)
                /\ Cardinality(gets) <= 1
                /\ \A i \in gets : \E j \in ends : j < i
                /\ r \in wc[e].rounds <=> gets # {}

\* The driver of an epoch has finished every round and read the coin of each.
C11_Witness ==
    \E e \in NonGenesis :
        /\ Len(wc[e].log) = 2 * RoundsNumber
        /\ pc[e] = "tally"

\* C12: the proposal-phase finished time is set once per epoch, by the step
\* that ends the proposal phase, before the own-vote goroutine of the first
\* round exists.
C12_FinishedTimeSetOnce ==
    /\ [](\A e \in NonGenesis : hist[e].entered <= 1)
    /\ [][/\ proposalPhaseFinishedTime' \notin {ZeroTime, proposalPhaseFinishedTime}
             => \E e \in NonGenesis : pc[e] = "proposal" /\ pc'[e] = "round"
          /\ \A e \in NonGenesis :
               /\ pc[e] = "proposal" /\ pc'[e] = "round"
                    => proposalPhaseFinishedTime'
                           \notin {ZeroTime, proposalPhaseFinishedTime}
               /\ (\E v \in voters'[e] \ voters[e] : v[1] = firstRound)
                    => pc[e] = "proposal" /\ proposalPhaseFinishedTime' # ZeroTime]_vars

\* The own-vote goroutine of the first round runs and the finished time is set.
C12_Witness ==
    \E e \in NonGenesis :
        /\ pc[e] = "round"
        /\ <<firstRound, FALSE>> \in voters[e]
        /\ proposalPhaseFinishedTime # ZeroTime

\* C13: the driver of an epoch goes through the stabilisation wait, the
\* proposal phase, the rounds in increasing order and the tally, in that
\* order; a round follows the previous one, and the tally the last round, only
\* once the round timer has fired; the driver leaves a phase early only when
\* its context is cancelled.
C13_PhasesInOrder ==
    [][\A e \in Epochs :
         /\ pc'[e] = "hl_wait" => pc[e] \in {"idle", "hl_wait"}
         /\ pc'[e] = "proposal" => pc[e] \in {"hl_wait", "proposal"}
         /\ pc'[e] = "round" => pc[e] \in {"proposal", "round"}
         /\ pc[e] = "proposal" /\ pc'[e] = "round" => round'[e] = firstRound
         /\ pc[e] = "round" /\ pc'[e] = "round" /\ round'[e] # round[e]
              => round'[e] = round[e] + 1 /\ timerFired[e]
         /\ pc'[e] = "tally"
              => \/ pc[e] = "tally"
                 \/ pc[e] = "round" /\ round[e] = lastRound /\ timerFired[e]
         /\ pc[e] \in DriverPhases /\ pc'[e] = "idle"
              => pc[e] = "tally" \/ (pc[e] = "round" /\ ctxDone[e]) \/ panicked']_vars

\* The driver of an epoch waits in its last round and the deadline has passed.
C13_Witness ==
    \E e \in NonGenesis :
        pc[e] = "round" /\ round[e] = lastRound /\ timerFired[e]

\* C14: after Start, a call of Close ends and leaves nothing behind: while a
\* Close waits in eg.Wait every running goroutine of the group has been
\* cancelled (so the wait ends once the collaborators return), and when
\* Close returns every worker has terminated and no subscription to the
\* layer clock is left.
C14_CloseEnds ==
    /\ [](closing > 0 =>
            /\ listeners.live = 0
            /\ \A e \in Epochs : pc[e] # "idle" \/ WorkersRunning(e) => ctxDone[e])
    /\ [][closing' < closing /\ ~panicked' =>
            ~GoroutinesRunning /\ subscribed' = 0]_vars

\* C15: a Start on a started engine changes nothing but the log (no second
\* subscription, no second listener), and there is never more than one layer
\* listener goroutine.
C15_StartOnce ==
    /\ [](listeners.live + listeners.dead <= 1)
    /\ [][warnings' > warnings =>
            /\ closed = 1 /\ closed' = 1
            /\ listeners' = listeners
            /\ subscribed' = subscribed
            /\ starts' = starts
            /\ beacons' = beacons
            /\ pc' = pc]_vars

\* C16: on a started engine GetBeacon(E) with E-1 a genesis epoch returns
\* the genesis constant and nothing else, whatever the mirror answers
\* (a value, not-found or a failure).
C16_GenesisBeaconAlways ==
    closed = 1 =>
        \A t \in Targets \ {0} :
            IsGenesis(t - 1) => GetBeaconResults(t) = {genesisBeacon}

\* C17: GetBeacon(0) is ErrZeroEpoch whatever the mirror would answer and
\* whatever the memory holds; GetBeacon(E), E >= 1, E-1 not a genesis epoch,
\* with a mirror that answers not-found (or no mirror) and no entry in
\* memory, is ErrBeaconNotCalculated.
C17_GetBeaconErrors ==
    /\ \A attached \in BOOLEAN :
       \A a \in {DBNotFound, DBFail, genesisBeacon} \cup {db[e] : e \in Epochs} :
            GetBeacon(0, attached, a, beacons) = ErrZeroEpoch
    /\ \A t \in Targets \ {0} :
            ~IsGenesis(t - 1) /\ beacons[t - 1] = NoBeacon =>
                GetBeacon(t, dbAttached, DBNotFound, beacons) = ErrBeaconNotCalculated

\* The protocol of a non-genesis epoch is in its rounds on a node with a
\* mirror: the beacon of the epoch is asked for and is not calculated.
C17_Witness ==
    \E e \in NonGenesis :
        /\ dbAttached /\ closed = 1 /\ pc[e] = "round"
        /\ beacons[e] = NoBeacon /\ db[e] = NoBeacon
        /\ GetBeaconResults(e + 1) = {ErrBeaconNotCalculated, ErrDB}
        /\ GetBeacon(0, dbAttached, DBFail, beacons) = ErrZeroEpoch

\* C18: a failure of the mirror read other than not-found does not hide a
\* beacon held in memory: GetBeacon answers with the beacon of the memory.
C18_MemoryBehindMirrorFailure ==
    \A e \in NonGenesis :
        dbAttached /\ beacons[e] # NoBeacon =>
            GetBeacon(e + 1, dbAttached, DBFail, beacons) = beacons[e]

\* C19: the engine panics with "epoch ticked twice" for the first layer of
\* an epoch E only when the first layer of some epoch E' >= E was accepted
\* before; every other first layer of an epoch is accepted, and the epoch
\* in progress changes only by growing.
C19_TickedTwiceOnlyAfterAccept ==
    /\ [][~panicked /\ panicked' /\ fatal'[1] = "epoch ticked twice" =>
            \E x \in Epochs : x >= fatal'[2] /\ hist[x].accepted]_vars
    /\ [][~panicked' /\ epochInProgress' # epochInProgress =>
            epochInProgress' > epochInProgress]_vars

\* C20: when the node is not synced as the driver of a non-genesis epoch E
\* is entered, the epoch is a no-op: the step broadcasts nothing and starts
\* no worker, calls no weak-coin method, closes and creates no proposal
\* channel, leaves the per-epoch state alone and writes no beacon; the
\* protocol of E is never entered and E never gets a beacon.
C20_UnsyncedEpochNoOp ==
    /\ [](\A e \in NonGenesis \ synced :
            /\ hist[e].entered = 0
            /\ beacons[e] = NoBeacon /\ db[e] = NoBeacon
            /\ wc[e] = WcInit
            /\ sender[e] = "idle" /\ voters[e] = {} /\ coinRunners[e] = {}
            /\ pump[e].pc = "idle")
    /\ [][\A e \in NonGenesis \ synced :
            pc[e] = "hl_wait" /\ pc'[e] # "hl_wait" /\ ~panicked' =>
                /\ pc'[e] = "idle"
                /\ UNCHANGED <<proposalChans, epochStateVars, storeVars, wc,
                               workerVars, round, timerFired>>]_vars

\* The driver of an unsynced non-genesis epoch was entered on a running
\* engine and has returned.
C20_Witness ==
    \E e \in NonGenesis \ synced :
        /\ closed = 1 /\ ~panicked /\ ~ctxDone[e]
        /\ epochInProgress = e /\ hist[e].accepted
        /\ pc[e] = "idle"

\* C21: when the node's own proposal passes the eligibility threshold it is
\* in incomingProposals.valid at the moment the first-round vote is built,
\* whatever the broadcast returned; when it does not pass it is neither
\* broadcast nor inserted.
C21_OwnProposalInFirstVote ==
    /\ [][\A e \in NonGenesis :
            /\ <<firstRound, FALSE>> \in voters[e] \ voters'[e]
            /\ ~panicked'
            /\ OwnProposalPasses
            => OwnProposal(e) \in incomingProposals.valid]_vars
    /\ [](\A e \in NonGenesis :
            ~OwnProposalPasses =>
                sender[e] # "sent" /\ OwnProposal(e) \notin incomingProposals.valid)

\* C22: every access to the state guarded by tb.mu is made holding tb.mu,
\* a write in exclusive mode, and no two goroutines are about to access the
\* same field, one of them writing, unless both hold tb.mu.
C22_AccessesUnderLock ==
    /\ \A a \in PendingAccesses :
            a.lock # "none" /\ (a.write => a.lock = "W")
    /\ \A a, b \in PendingAccesses :
            a.worker # b.worker /\ a.field = b.field /\ (a.write \/ b.write)
                => a.lock # "none" /\ b.lock # "none"

\* C23: the vote goroutine of the first round carries no coin
\* (previousCoinFlip = false); the vote goroutine of a later round r carries
\* the value that weakCoin.Get returned for round r - 1 of the same epoch:
\* it is started in the step that reads that value into coinFlip, and while
\* round r is running its coin is the coinFlip of the driver.
C23_PreviousCoinFlip ==
    /\ [](\A e \in Epochs : \A v \in voters[e] :
            /\ v[1] = firstRound => v[2] = FALSE
            /\ v[1] > firstRound /\ pc[e] = "round" /\ round[e] = v[1]
                    => v[2] = coinFlip[e])
    /\ [][\A e \in Epochs : \A v \in voters'[e] \ voters[e] :
            v[1] > firstRound =>
                /\ Len(wc'[e].log) = Len(wc[e].log) + 2
                /\ wc'[e].log[Len(wc'[e].log)] = <<"Get", v[1] - 1>>
                /\ v[2] = coinFlip'[e]]_vars

\* The last round runs with a coin that came up true.
C23_Witness ==
    \E e \in NonGenesis :
        /\ pc[e] = "round" /\ round[e] = lastRound /\ lastRound > firstRound
        /\ coinFlip[e] /\ <<lastRound, TRUE>> \in voters[e]

\* C24: for an epoch weight of 0 the threshold computation returns the
\* "zero epoch weight" error, the node's proposal is not broadcast and not
\* inserted into the valid set, and the round driver runs every voting
\* round and reaches the tally all the same.
C24_ZeroEpochWeight ==
    /\ atxThreshold(0).err = ErrZeroEpochWeight
    /\ proposalPassesEligibilityThreshold(signature, 0).err = ErrZeroEpochWeight
    /\ epochWeight = 0 =>
        \A e \in Epochs :
            /\ sender[e] # "sent"
            /\ OwnProposal(e) \notin incomingProposals.valid
            /\ pc[e] = "tally" =>
                    /\ wc[e].rounds = Rounds
                    /\ Len(wc[e].log) = 2 * RoundsNumber

\* With an epoch weight of 0 the sender has returned and the driver of a
\* synced epoch has run every round and is at the tally.
C24_Witness ==
    \E e \in NonGenesis :
        /\ epochWeight = 0 /\ hist[e].entered = 1
        /\ sender[e] = "idle" /\ pc[e] = "tally" /\ wc[e].rounds = Rounds

\* C25: when Broadcast fails, for the node's proposal or for a vote, nothing
\* is sent again and the epoch goes on: the context is not cancelled, the
\* sender and the vote goroutines are started once each by the driver, the
\* round in progress still ends at its deadline, the weak-coin rounds still
\* start, and the tally is reached after every round and computes the beacon.
C25_BroadcastFailureTolerated ==
    /\ [](broadcastErr =>
            \A e \in Epochs :
                /\ ~ctxDone[e]
                /\ sender[e] # "sent"
                /\ pc[e] = "round" =>
                        ENABLED (TimerFire(e) \/ runConsensusPhase(e))
                /\ \A r \in coinRunners[e] : ENABLED startWeakCoinRound(e, r)
                /\ pc[e] = "tally" =>
                        wc[e].rounds = Rounds /\ ENABLED calcBeacon(e))
    /\ [][broadcastErr =>
            \A e \in Epochs :
                /\ sender'[e] = "run" /\ sender[e] # "run" => pc[e] = "hl_wait"
                /\ \A v \in voters'[e] \ voters[e] :
                        /\ v \notin voters[e]
                        /\ pc[e] \in {"proposal", "round"}
                        /\ pc'[e] = "round"
                        /\ v[1] = round'[e]]_vars

\* Every Broadcast of a synced epoch failed, that of the eligible proposal
\* included, and the driver is at the tally after every round.
C25_Witness ==
    \E e \in NonGenesis :
        /\ broadcastErr /\ OwnProposalPasses
        /\ hist[e].entered = 1 /\ sender[e] = "idle" /\ voters[e] = {}
        /\ pc[e] = "tally" /\ wc[e].rounds = Rounds

\* C26: for a weight W > 0 a signature passes the eligibility test exactly
\* when its integer value is strictly below atxThreshold(W), a signature
\* equal to the threshold does not pass, and the node's own proposal is
\* broadcast only when the test on its signature is true.
C26_StrictlyBelowThreshold ==
    /\ \A sig \in Signatures : \A w \in {EpochWeight} \cup ({epochWeight} \ {0}) :
            LET test == proposalPassesEligibilityThreshold(sig, w)
                t == atxThreshold(w)
            IN  /\ test.err = "" /\ t.err = ""
                /\ test.passes <=> sig < t.threshold
                /\ sig = t.threshold => ~test.passes
    /\ \A e \in Epochs :
            sender[e] = "sent" \/ OwnProposal(e) \in incomingProposals.valid
                => /\ epochWeight > 0
                   /\ signature < atxThreshold(epochWeight).threshold

\* A signature just below the threshold was broadcast.
C26_Witness ==
    \E e \in NonGenesis :
        /\ epochWeight > 0
        /\ signature + 1 = atxThreshold(epochWeight).threshold
        /\ sender[e] = "sent"

\* C27: Start panics exactly when no sync state provider is installed, a
\* provider is installed only while none is, and a SetSyncState on an
\* engine that has a provider panics and leaves that provider in place.
C27_SyncStateOnce ==
    [][/\ ~panicked /\ panicked'
            /\ fatal'[1] = "update sync state provider can't be nil"
          => sync = NoSync /\ closed = 0
       /\ closed = 0 /\ closed' = 1 => sync # NoSync /\ ~panicked'
       /\ sync' # sync => sync = NoSync /\ sync' \in SyncProviders /\ ~panicked'
       /\ ~panicked /\ panicked'
            /\ fatal'[1] = "sync state provider can be updated only once"
          => sync # NoSync /\ sync' = sync]_vars

\* A second SetSyncState brought the process down; the first provider is
\* the one installed.
C27_Witness ==
    /\ panicked
    /\ fatal[1] = "sync state provider can be updated only once"
    /\ sync = "sync1"

\* C28: the pump goes on to report a message it took from the channel of
\* its epoch exactly when handling the message returned no error, and then
\* the message has been handled already: its proposal is in one of the
\* proposal sets; the pump reports nothing else.
C28_ReportedIffHandled ==
    [][\A e \in Epochs :
        /\ /\ pump[e].pc = "run" /\ pump'[e].pc # "run"
           /\ Len(proposalChans[e].buf) > 0
           /\ proposalChans'[e].buf = Tail(proposalChans[e].buf)
           /\ ~panicked'
           => LET m == Head(proposalChans[e].buf) IN
              /\ pump'[e].pc = "report" <=> m.good /\ e = epochInProgress
              /\ pump'[e].pc = "report" =>
                    m.prop \in incomingProposals'.valid
                                \cup incomingProposals'.potentiallyValid
        /\ pump[e].pc # "report" /\ pump'[e].pc = "report"
           => /\ pump[e].pc = "run"
              /\ Len(proposalChans[e].buf) > 0
              /\ Head(proposalChans[e].buf).good
              /\ proposalChans'[e].buf = Tail(proposalChans[e].buf)]_vars

\* The pump has handled a message and is about to report it.
C28_Witness ==
    \E e \in NonGenesis :
        /\ pump[e].pc = "report"
        /\ incomingProposals.valid \cup incomingProposals.potentiallyValid # {}

\* C29: weakCoin.StartRound(ctx, r) is called only while the context of the
\* epoch is not cancelled and before the driver's FinishRound call that
\* closes round r.
C29_StartRoundInsideRound ==
    [][\A e \in Epochs : \A r \in wc'[e].starts \ wc[e].starts :
          /\ ~ctxDone[e]
          /\ r \notin wc[e].rounds]_vars

\* C30: once the proposal phase of an epoch has been marked finished, a
\* message of that epoch whose receipt time is at or after the finish time
\* is never judged in time, that is, its proposal is never added to the
\* valid proposals, also when it is handled after the state of the epoch was
\* torn down.
C30_LateProposalNeverInTime ==
    [][\A e \in NonGenesis :
          /\ pump[e].pc = "run" /\ pump'[e].pc = "report"
          /\ Len(proposalChans[e].buf) > 0
          /\ hist[e].finishedAt # ZeroTime
          /\ Head(proposalChans[e].buf).recv >= hist[e].finishedAt
          => incomingProposals'.valid = incomingProposals.valid]_vars

\* C31: IsClosed never returns true while a goroutine that Start has spawned,
\* or one of the goroutines it has spawned in turn, is still running, also
\* not while a Close waits for them.
C31_IsClosedMeansNoWorkers ==
    ~panicked /\ IsClosed(closed) => ~GoroutinesRunning

\* C32: a Close that wins the CAS on tb.closed finds the cancel function of
\* the Start that set the flag stored in tb.cancel, so it neither calls a
\* nil function nor the cancel function of an earlier Start, and the ticker
\* it unsubscribes is one that this Start has subscribed.
C32_CloseFindsStartComplete ==
    [][/\ panicked' /\ ~panicked => fatal'[1] # NilDereference
       /\ closing' > closing =>
             startCall.pc = "idle" /\ startCall.cancel = "stored"
       /\ closing' < closing /\ ~panicked' =>
             startCall.layerTicker = "subscribed"]_vars

\* The eligibility counts of the keys whose first notification carried s.
RECURSIVE FirstCounts(_, _)
FirstCounts(s, keys) ==
    IF keys = {} THEN 0
    ELSE LET p == CHOOSE x \in keys : TRUE
         IN  (IF ntHist.first[p] # NoMsg /\ ntHist.first[p].values = s
              THEN ntHist.first[p].eligibilityCount ELSE 0)
             + FirstCounts(s, keys \ {p})

====
